---- MODULE Spec2Model ----
(***************************************************************************)
(* The five inspection scripts of the repository as one state machine.     *)
(* A run is one execution of one script against its fixed input file:      *)
(*   analyze_mappings.py    reads mappings.json                            *)
(*   inspect_db.py, inspect_aot.py, inspect_episodes.py,                   *)
(*   inspect_duplicates.py  read anime_mappings.db                         *)
(* Python values are tagged records; stdout is the sequence out.           *)
(***************************************************************************)
EXTENDS Integers, Sequences, FiniteSets, TLC

VARIABLES
    script,       \* which of the five scripts this run executes
    pc,           \* position of the run in the script
    json,         \* mappings.json on disk: state and parsed content
    db,           \* anime_mappings.db on disk: file state and tables
    data,         \* analyze_mappings.py: the loaded dict, as its items() sequence
    found_key,    \* analyze_mappings.py: found_key
    found_entry,  \* analyze_mappings.py: found_entry
    imdb_map,     \* analyze_mappings.py: imdb_map (value -> key)
    duplicates,   \* analyze_mappings.py: duplicates
    imdb_ids,     \* analyze_mappings.py: the normalised list being walked
    pos,          \* index of the current item of the outer for loop
    sub,          \* index of the current item of the inner for loop
    conn,         \* the SQLite scripts: state of the connection
    tables,       \* inspect_db.py: tables
    rows,         \* inspect_duplicates.py: rows
    out           \* lines printed so far

vars == <<script, pc, json, db, data, found_key, found_entry, imdb_map,
          duplicates, imdb_ids, pos, sub, conn, tables, rows, out>>

(***************************************************************************)
(* Bounds of the model.                                                    *)
(***************************************************************************)
MaxRecords == 2
MaxListLen == 2
MaxTables == 2
MaxRows == 6
MaxPerId == 2

(***************************************************************************)
(* Python values.                                                          *)
(***************************************************************************)
None == [t |-> "none"]
Num(n) == [t |-> "int", v |-> n]
Str(s) == [t |-> "str", v |-> s]
List(l) == [t |-> "list", v |-> l]

IsList(x) == x.t = "list"

\* Python truth value of x, as tested by `if mal_ids:` and `if not imdb_ids:`
Truthy(x) ==
    CASE x.t = "none" -> FALSE
      [] x.t = "int"  -> x.v # 0
      [] x.t = "str"  -> x.v # ""
      [] x.t = "list" -> Len(x.v) > 0

\* Python a == b on the values of the model
PyEq(a, b) == a.t = b.t /\ (a.t = "none" \/ a.v = b.v)

\* Python `x in l` for a list l
PyIn(x, l) == \E k \in 1..Len(l.v) : PyEq(l.v[k], x)

target_mal_id == 38524

(***************************************************************************)
(* Inputs: the content of mappings.json.                                   *)
(***************************************************************************)
Lists(S, n) == UNION {[1..k -> S] : k \in 0..n}

KeyNames == <<"k1", "k2", "k3", "k4">>

MalElems == {Num(target_mal_id), Num(target_mal_id + 1)}
MalRich == {None, Num(0)} \cup MalElems \cup {List(l) : l \in Lists(MalElems, MaxListLen)}
MalPoor == {None, Num(target_mal_id)}

ImdbElems == {Str("tt1"), Str("tt2")}
ImdbRich == {None, Str(""), Str("tt1")} \cup {List(l) : l \in Lists(ImdbElems, MaxListLen)}
ImdbPoor == {None, Str("tt1")}

\* records whose mal_id varies widely, and records whose imdb_id does
MalRecords == [mal_id : MalRich, imdb_id : ImdbPoor]
ImdbRecords == [mal_id : MalPoor, imdb_id : ImdbRich]

Items(recs) == [k \in 1..Len(recs) |-> [key |-> Str(KeyNames[k]), value |-> recs[k]]]

Datasets ==
    {Items(recs) : recs \in Lists(MalRecords, MaxRecords) \cup Lists(ImdbRecords, MaxRecords)}

JsonFiles ==
    {[state |-> "ok", content |-> d] : d \in Datasets}
        \cup {[state |-> "missing", content |-> <<>>],
              [state |-> "malformed", content |-> <<>>]}

NoJson == [state |-> "missing", content |-> <<>>]
NoDb == [file |-> "missing", tables |-> <<>>]

(***************************************************************************)
(* analyze_mappings.py                                                     *)
(***************************************************************************)

\* a lookup whose scalar branch is missing
MatchesListOnly(mal_ids, target) ==
    Truthy(mal_ids) /\ IsList(mal_ids) /\ PyIn(Num(target), mal_ids)

\* a lookup that forgets the comparison
MatchesTruthy(mal_ids, target) == Truthy(mal_ids)

\* the test of lines 13-22 on one record's mal_id
Matches(mal_ids, target) ==
    /\ Truthy(mal_ids)
    /\ IF IsList(mal_ids)
         THEN PyIn(Num(target), mal_ids)
         ELSE PyEq(mal_ids, Num(target))

\* a lookup without its break statements
AfterTestNoBreak(matched) == "lookup"

\* the loop position after one record was tested: break on a match
AfterTest(matched) == IF matched THEN "print_entry" ELSE "lookup"

\* a loader that swallows the error and goes on with an empty dict
LoadJsonLenient ==
    /\ script = "analyze_mappings" /\ pc = "start"
    /\ data' = json.content
    /\ pc' = "lookup"
    /\ pos' = 1
    /\ UNCHANGED <<script, json, db, found_key, found_entry, imdb_map,
                   duplicates, imdb_ids, sub, conn, tables, rows, out>>

\* with open(...) as f: data = json.load(f)
LoadJson ==
    /\ script = "analyze_mappings" /\ pc = "start"
    /\ IF json.state = "ok"
         THEN /\ data' = json.content
              /\ pc' = "lookup"
              /\ pos' = 1
         ELSE /\ pc' = "error"
              /\ UNCHANGED <<data, pos>>
    /\ UNCHANGED <<script, json, db, found_key, found_entry, imdb_map,
                   duplicates, imdb_ids, sub, conn, tables, rows, out>>

\* one iteration of `for key, value in data.items()` of the lookup
LookupStep ==
    /\ script = "analyze_mappings" /\ pc = "lookup"
    /\ pos <= Len(data)
    /\ LET key == data[pos].key
           value == data[pos].value
           matched == Matches(value.mal_id, target_mal_id)
       IN /\ found_entry' = IF matched THEN value ELSE found_entry
          /\ found_key' = IF matched THEN key ELSE found_key
          /\ pc' = AfterTest(matched)
          /\ pos' = pos + 1
    /\ UNCHANGED <<script, json, db, data, imdb_map, duplicates, imdb_ids,
                   sub, conn, tables, rows, out>>

\* the lookup loop runs out of records
LookupExhausted ==
    /\ script = "analyze_mappings" /\ pc = "lookup"
    /\ pos > Len(data)
    /\ pc' = "print_entry"
    /\ UNCHANGED <<script, json, db, data, found_key, found_entry, imdb_map,
                   duplicates, imdb_ids, pos, sub, conn, tables, rows, out>>

\* json.dumps renders a None key as "null"
DumpKey(k) == IF k.t = "none" THEN "null" ELSE k.v

\* the two prints of the entry, the heading of the duplicate check and
\* the initialisation of imdb_map and duplicates
PrintEntry ==
    /\ script = "analyze_mappings" /\ pc = "print_entry"
    /\ out' = out \o <<[line |-> "Entry for MAL ID", id |-> target_mal_id],
                       [line |-> "entry", key |-> DumpKey(found_key), entry |-> found_entry],
                       [line |-> "Checking duplicates for IMDb IDs..."]>>
    /\ imdb_map' = <<>>
    /\ duplicates' = 0
    /\ pos' = 1
    /\ pc' = "scan"
    /\ UNCHANGED <<script, json, db, data, found_key, found_entry, imdb_ids,
                   sub, conn, tables, rows>>

\* lines 35-36: a scalar becomes a one-element list
Normalize(ids) == IF IsList(ids) THEN ids ELSE List(<<ids>>)

\* head of one iteration of the scan: skip a falsy imdb_id, else normalise it
\* and enter the inner loop
ScanRecordBody ==
    /\ script = "analyze_mappings" /\ pc = "scan"
    /\ pos <= Len(data)
    /\ LET ids == data[pos].value.imdb_id
       IN IF ~Truthy(ids)
            THEN /\ pos' = pos + 1
                 /\ UNCHANGED <<pc, imdb_ids, sub>>
            ELSE /\ imdb_ids' = Normalize(ids)
                 /\ sub' = 1
                 /\ pc' = "scan_values"
                 /\ UNCHANGED pos
    /\ UNCHANGED <<script, json, db, found_key, found_entry, imdb_map,
                   duplicates, conn, tables, rows, out>>

ScanRecordWriteBack ==
    /\ ScanRecordBody
    /\ data' = IF Truthy(data[pos].value.imdb_id)
                 THEN [data EXCEPT ![pos].value.imdb_id = Normalize(@)]
                 ELSE data

ScanRecord ==
    /\ ScanRecordBody
    /\ UNCHANGED data

\* a scan that stores the key of every occurrence
MapAfterOverwrite(m, imdb, key) ==
    [x \in DOMAIN m \cup {imdb} |-> IF x = imdb THEN key ELSE m[x]]

\* the effect of lines 39-43 on imdb_map for one value imdb of record key
MapAfter(m, imdb, key) ==
    IF imdb \in DOMAIN m
      THEN m
      ELSE [x \in DOMAIN m \cup {imdb} |-> IF x = imdb THEN key ELSE m[x]]

\* a scan that never counts, and one that counts every value
DuplicatesAfterNever(m, imdb, d) == d

DuplicatesAfterAlways(m, imdb, d) == d + 1

\* the effect of lines 39-43 on duplicates
DuplicatesAfter(m, imdb, d) == IF imdb \in DOMAIN m THEN d + 1 ELSE d

\* one iteration of `for imdb in imdb_ids`, or its end
ScanValue ==
    /\ script = "analyze_mappings" /\ pc = "scan_values"
    /\ IF sub <= Len(imdb_ids.v)
         THEN /\ imdb_map' = MapAfter(imdb_map, imdb_ids.v[sub], data[pos].key)
              /\ duplicates' = DuplicatesAfter(imdb_map, imdb_ids.v[sub], duplicates)
              /\ sub' = sub + 1
              /\ UNCHANGED <<pc, pos>>
         ELSE /\ pos' = pos + 1
              /\ pc' = "scan"
              /\ UNCHANGED <<imdb_map, duplicates, sub>>
    /\ UNCHANGED <<script, json, db, data, found_key, found_entry, imdb_ids,
                   conn, tables, rows, out>>

\* the three report lines, after the scan ran out of records
Report ==
    /\ script = "analyze_mappings" /\ pc = "scan"
    /\ pos > Len(data)
    /\ out' = out \o <<[line |-> "Total entries", n |-> Len(data)],
                       [line |-> "Unique IMDb IDs mapped", n |-> Cardinality(DOMAIN imdb_map)],
                       [line |-> "Duplicate IMDb references", n |-> duplicates]>>
    /\ pc' = "done"
    /\ UNCHANGED <<script, json, db, data, found_key, found_entry, imdb_map,
                   duplicates, imdb_ids, pos, sub, conn, tables, rows>>

(***************************************************************************)
(* Inputs: the content of anime_mappings.db.  A row of anime carries the   *)
(* columns the scripts select on; text cells of imdb_id are sequences of   *)
(* characters, because inspect_duplicates.py pastes them into SQL text.    *)
(***************************************************************************)
Quote == "'"

\* the imdb_id texts of the model, in ascending byte order
ImdbOrder ==
    << <<"t", Quote, Quote, "1">>, <<"t", Quote, "1">>,
       <<"t", "1">>, <<"t", "2">>, <<"t", "3">>, <<"t", "4">> >>

ImdbCells == <<None>> \o [k \in 1..Len(ImdbOrder) |-> Str(ImdbOrder[k])]

Titles ==
    <<Str("Shingeki no Kyojin"), Str("Shingeki no Kyojin Season 3 Part 2"),
      Str("One Piece"), Str("Naruto"), None>>

TitleOf(k) == Titles[((k - 1) % Len(Titles)) + 1]

AnimeRow(k, imdb) == [mal_id |-> Num(k), mal_title |-> TitleOf(k), imdb_id |-> imdb]

Copies(x, n) == [k \in 1..n |-> x]

RECURSIVE Flatten(_, _)
Flatten(counts, i) ==
    IF i > Len(ImdbCells)
      THEN <<>>
      ELSE Copies(ImdbCells[i], counts[i]) \o Flatten(counts, i + 1)

\* the table anime holding counts[i] rows with imdb_id ImdbCells[i]
AnimeTable(cells) ==
    [name |-> "anime",
     cols |-> <<"mal_id", "mal_title", "imdb_id">>,
     rows |-> [k \in 1..Len(cells) |-> AnimeRow(k, cells[k])]]

\* a table of n rows named name
PlainTable(name, n) ==
    IF name = "anime"
      THEN AnimeTable([k \in 1..n |-> ImdbCells[((k - 1) % 4) + 1]])
      ELSE [name |-> name,
            cols |-> <<"key", "value">>,
            rows |-> [k \in 1..n |-> [key |-> Num(k), value |-> Str("v")]]]

TableNames == {"anime", "meta", "sqlite_sequence"}

Injective(f) == \A a, b \in DOMAIN f : f[a] = f[b] => a = b

\* databases of up to MaxTables tables of up to MaxRows rows each
SchemaDbs ==
    {[file |-> "present",
      tables |-> [k \in 1..Len(names) |-> PlainTable(names[k], sizes[k])]] :
        <<names, sizes>> \in
            UNION {{ns \in [1..n -> TableNames] : Injective(ns)} \X [1..n -> 0..MaxRows] :
                   n \in 0..MaxTables}}

\* databases whose only table is anime, with up to MaxPerId rows per imdb_id
DupDbs ==
    {[file |-> "present", tables |-> <<AnimeTable(Flatten(counts, 1))>>] :
        counts \in [1..Len(ImdbCells) -> 0..MaxPerId]}

\* the file is absent; its directory exists or not
BadDbs == {[file |-> "missing", tables |-> <<>>], [file |-> "nodir", tables |-> <<>>]}

(***************************************************************************)
(* The SQLite scripts: connecting and querying.                            *)
(***************************************************************************)
SqliteScripts == {"inspect_db", "inspect_aot", "inspect_episodes", "inspect_duplicates"}

\* conn = sqlite3.connect(path): opens the file, creating an empty database
\* when the file is absent, and raises when the file cannot be created
Connect ==
    /\ script \in SqliteScripts /\ pc = "start"
    /\ IF db.file = "nodir"
         THEN /\ pc' = "error"
              /\ UNCHANGED <<db, conn>>
         ELSE /\ pc' = "connected"
              /\ conn' = "open"
              /\ db' = IF db.file = "missing"
                         THEN [file |-> "created", tables |-> <<>>]
                         ELSE db
    /\ UNCHANGED <<script, json, data, found_key, found_entry, imdb_map,
                   duplicates, imdb_ids, pos, sub, tables, rows, out>>

HasTable(d, name) == \E k \in 1..Len(d.tables) : d.tables[k].name = name

TableOf(d, name) == d.tables[CHOOSE k \in 1..Len(d.tables) : d.tables[k].name = name]

\* the rows of anime, or none when there is no such table
AnimeRows(d) == IF HasTable(d, "anime") THEN TableOf(d, "anime").rows ELSE <<>>

Min(a, b) == IF a < b THEN a ELSE b

\* a query without its LIMIT clause
LimitAll(s, n) == s

\* LIMIT n
Limit(s, n) == SubSeq(s, 1, Min(n, Len(s)))

(***************************************************************************)
(* inspect_db.py                                                           *)
(***************************************************************************)
RowLimit == 5

\* SELECT name FROM sqlite_master WHERE type='table'; print(f"Tables: ...")
ListTables ==
    /\ script = "inspect_db" /\ pc = "connected"
    /\ tables' = [k \in 1..Len(db.tables) |-> <<db.tables[k].name>>]
    /\ out' = Append(out, [line |-> "Tables", tables |-> tables'])
    /\ pos' = 1
    /\ pc' = "tables"
    /\ UNCHANGED <<script, json, db, data, found_key, found_entry, imdb_map,
                   duplicates, imdb_ids, sub, conn, rows>>

Lines(kind, name, s) == [k \in 1..Len(s) |-> [line |-> kind, table |-> name, item |-> s[k]]]

\* the first half of one iteration of `for table in tables`: the heading
\* and the result of PRAGMA table_info
TableSchema ==
    /\ script = "inspect_db" /\ pc = "tables"
    /\ pos <= Len(tables)
    /\ LET table_name == tables[pos][1]
           columns == TableOf(db, table_name).cols
       IN out' = out \o <<[line |-> "Schema for", table |-> table_name]>>
                     \o Lines("col", table_name, columns)
    /\ pc' = "table_rows"
    /\ UNCHANGED <<script, json, db, data, found_key, found_entry, imdb_map,
                   duplicates, imdb_ids, pos, sub, conn, tables, rows>>

\* the second half: the heading and the result of SELECT * ... LIMIT 5
TableRows ==
    /\ script = "inspect_db" /\ pc = "table_rows"
    /\ LET table_name == tables[pos][1]
           fetched == Limit(TableOf(db, table_name).rows, RowLimit)
       IN out' = out \o <<[line |-> "First 5 rows of", table |-> table_name]>>
                     \o Lines("row", table_name, fetched)
    /\ pos' = pos + 1
    /\ pc' = "tables"
    /\ UNCHANGED <<script, json, db, data, found_key, found_entry, imdb_map,
                   duplicates, imdb_ids, sub, conn, tables, rows>>

\* conn.close() after the loop
DbClose ==
    /\ script = "inspect_db" /\ pc = "tables"
    /\ pos > Len(tables)
    /\ conn' = "closed"
    /\ pc' = "done"
    /\ UNCHANGED <<script, json, db, data, found_key, found_entry, imdb_map,
                   duplicates, imdb_ids, pos, sub, tables, rows, out>>

(***************************************************************************)
(* inspect_aot.py and inspect_episodes.py                                  *)
(***************************************************************************)
\* mal_title LIKE '%Shingeki no Kyojin%'
LikeShingeki(title) ==
    /\ title.t = "str"
    /\ title.v \in {"Shingeki no Kyojin", "Shingeki no Kyojin Season 3 Part 2"}

\* mal_title LIKE 'Shingeki no Kyojin Season 3%'
LikeSeason3(title) == title.t = "str" /\ title.v = "Shingeki no Kyojin Season 3 Part 2"

\* mal_title = 'One Piece'
IsOnePiece(title) == title.t = "str" /\ title.v = "One Piece"

\* inspect_aot.py after connecting: heading, query, rows, close
AotQuery ==
    /\ script = "inspect_aot" /\ pc = "connected"
    /\ IF HasTable(db, "anime")
         THEN /\ out' = out \o <<[line |-> "Shingeki no Kyojin entries:"]>>
                            \o Lines("row", "anime",
                                     SelectSeq(AnimeRows(db), LAMBDA r : LikeShingeki(r.mal_title)))
              /\ conn' = "closed"
              /\ pc' = "done"
         ELSE /\ out' = Append(out, [line |-> "Shingeki no Kyojin entries:"])
              /\ pc' = "error"
              /\ UNCHANGED conn
    /\ UNCHANGED <<script, json, db, data, found_key, found_entry, imdb_map,
                   duplicates, imdb_ids, pos, sub, tables, rows>>

\* inspect_episodes.py: heading, first query and its rows
EpisodesSeason3 ==
    /\ script = "inspect_episodes" /\ pc = "connected"
    /\ IF HasTable(db, "anime")
         THEN /\ out' = out \o <<[line |-> "Shingeki no Kyojin Season 3 details:"]>>
                            \o Lines("row", "anime",
                                     SelectSeq(AnimeRows(db), LAMBDA r : LikeSeason3(r.mal_title)))
              /\ pc' = "one_piece"
         ELSE /\ out' = Append(out, [line |-> "Shingeki no Kyojin Season 3 details:"])
              /\ pc' = "error"
    /\ UNCHANGED <<script, json, db, data, found_key, found_entry, imdb_map,
                   duplicates, imdb_ids, pos, sub, conn, tables, rows>>

\* inspect_episodes.py: heading, second query and its rows, close
EpisodesOnePiece ==
    /\ script = "inspect_episodes" /\ pc = "one_piece"
    /\ out' = out \o <<[line |-> "One Piece details:"]>>
                  \o Lines("row", "anime",
                           SelectSeq(AnimeRows(db), LAMBDA r : IsOnePiece(r.mal_title)))
    /\ conn' = "closed"
    /\ pc' = "done"
    /\ UNCHANGED <<script, json, db, data, found_key, found_entry, imdb_map,
                   duplicates, imdb_ids, pos, sub, tables, rows>>

(***************************************************************************)
(* inspect_duplicates.py                                                   *)
(***************************************************************************)
DupLimit == 5

\* SQL a = b on cells: never true of NULL, byte-wise on text
CellEq(a, b) == a.t = "str" /\ b.t = "str" /\ a.v = b.v

\* COUNT(*) of the group of cell c
GroupCount(rs, c) == Cardinality({k \in 1..Len(rs) : CellEq(rs[k].imdb_id, c)})

\* the groups of WHERE imdb_id IS NOT NULL GROUP BY imdb_id HAVING c > 1
DupGroups(rs) ==
    {c \in {rs[k].imdb_id : k \in 1..Len(rs)} : c.t = "str" /\ GroupCount(rs, c) > 1}

\* the results LIMIT 5 may give: SQL leaves open which groups are kept;
\* the groups come out of SQLite's sorter in ascending key order
GroupResults(rs) ==
    {[k \in 1..Len(kept) |-> <<kept[k], Num(GroupCount(rs, kept[k]))>>] :
        kept \in {SelectSeq(ImdbCells, LAMBDA c : c \in S) :
                    S \in {T \in SUBSET DupGroups(rs) :
                             Cardinality(T) = Min(DupLimit, Cardinality(DupGroups(rs)))}}}

\* SQLite reads a string literal that opens at text[1]: '' inside it stands
\* for one quote, a single quote ends it; ok says that the literal ended
\* exactly at the end of the text
RECURSIVE ReadLiteral(_, _, _)
ReadLiteral(text, k, acc) ==
    IF k > Len(text)
      THEN [ok |-> FALSE, val |-> acc]
      ELSE IF text[k] # Quote
             THEN ReadLiteral(text, k + 1, Append(acc, text[k]))
             ELSE IF k < Len(text) /\ text[k + 1] = Quote
                    THEN ReadLiteral(text, k + 2, Append(acc, Quote))
                    ELSE [ok |-> k = Len(text), val |-> acc]

\* the comparand of f"... WHERE imdb_id = '{row[0]}'" as SQLite reads it
DetailLiteral(cell) == ReadLiteral(<<Quote>> \o cell.v \o <<Quote>>, 2, <<>>)

\* the first query, fetchall() and the heading
DupQuery ==
    /\ script = "inspect_duplicates" /\ pc = "connected"
    /\ IF HasTable(db, "anime")
         THEN /\ rows' \in GroupResults(AnimeRows(db))
              /\ out' = Append(out, [line |-> "Duplicate IMDB IDs:"])
              /\ pos' = 1
              /\ pc' = "dup_rows"
         ELSE /\ pc' = "error"
              /\ UNCHANGED <<rows, out, pos>>
    /\ UNCHANGED <<script, json, db, data, found_key, found_entry, imdb_map,
                   duplicates, imdb_ids, sub, conn, tables>>

\* one iteration of `for row in rows`: print(row), the detail query built
\* from row[0], and its rows
DupRow ==
    /\ script = "inspect_duplicates" /\ pc = "dup_rows"
    /\ pos <= Len(rows)
    /\ LET row == rows[pos]
           lit == DetailLiteral(row[1])
           details == SelectSeq(AnimeRows(db),
                                LAMBDA r : CellEq(r.imdb_id, Str(lit.val)))
       IN IF lit.ok
            THEN /\ out' = out \o <<[line |-> "group", row |-> row]>>
                               \o Lines("detail", "anime", details)
                 /\ pos' = pos + 1
                 /\ UNCHANGED pc
            ELSE /\ out' = Append(out, [line |-> "group", row |-> row])
                 /\ pc' = "error"
                 /\ UNCHANGED pos
    /\ UNCHANGED <<script, json, db, data, found_key, found_entry, imdb_map,
                   duplicates, imdb_ids, sub, conn, tables, rows>>

\* conn.close() after the loop
DupClose ==
    /\ script = "inspect_duplicates" /\ pc = "dup_rows"
    /\ pos > Len(rows)
    /\ conn' = "closed"
    /\ pc' = "done"
    /\ UNCHANGED <<script, json, db, data, found_key, found_entry, imdb_map,
                   duplicates, imdb_ids, pos, sub, tables, rows, out>>

(***************************************************************************)
(* Specification.                                                          *)
(***************************************************************************)
\* the input files a run of script s may find
Inputs(s) ==
    CASE s = "analyze_mappings" -> JsonFiles \X {NoDb}
      [] s = "inspect_duplicates" -> {NoJson} \X (DupDbs \cup SchemaDbs \cup BadDbs)
      [] OTHER -> {NoJson} \X (SchemaDbs \cup BadDbs)

Init ==
    /\ script \in {"analyze_mappings"} \cup SqliteScripts
    /\ \E files \in Inputs(script) : json = files[1] /\ db = files[2]
    /\ pc = "start"
    /\ data = <<>>
    /\ found_key = None
    /\ found_entry = None
    /\ imdb_map = <<>>
    /\ duplicates = 0
    /\ imdb_ids = List(<<>>)
    /\ pos = 0
    /\ sub = 0
    /\ conn = "none"
    /\ tables = <<>>
    /\ rows = <<>>
    /\ out = <<>>

Next ==
    \/ LoadJson
    \/ LookupStep
    \/ LookupExhausted
    \/ PrintEntry
    \/ ScanRecord
    \/ ScanValue
    \/ Report
    \/ Connect
    \/ ListTables
    \/ TableSchema
    \/ TableRows
    \/ DbClose
    \/ AotQuery
    \/ EpisodesSeason3
    \/ EpisodesOnePiece
    \/ DupQuery
    \/ DupRow
    \/ DupClose

Spec == Init /\ [][Next]_vars

(***************************************************************************)
(* Properties of analyze_mappings.py.                                      *)
(***************************************************************************)
Analyzing == script = "analyze_mappings"

Scanning == Analyzing /\ pc \in {"scan", "scan_values", "done"}

LookedUp == Analyzing /\ pc \in {"print_entry", "scan", "scan_values", "done"}

\* the imdb_id values a record contributes: none when absent or empty,
\* the elements of a sequence, the scalar itself otherwise
ValuesOf(rec) ==
    LET x == rec.imdb_id
    IN CASE x.t = "none" -> <<>>
         [] x.t = "list" -> x.v
         [] x.t = "str" -> IF x.v = "" THEN <<>> ELSE <<x>>
         [] OTHER -> <<x>>

RECURSIVE ValueCount(_, _)
ValueCount(d, n) == IF n = 0 THEN 0 ELSE ValueCount(d, n - 1) + Len(ValuesOf(d[n].value))

\* the number of values the scan has been through
Processed ==
    CASE pc = "scan" -> ValueCount(data, pos - 1)
      [] pc = "scan_values" -> ValueCount(data, pos - 1) + (sub - 1)
      [] OTHER -> ValueCount(data, Len(data))

\* C1: at every point of the duplicate scan and at its end, duplicates plus
\* the number of keys of imdb_map equals the number of imdb_id values
\* processed so far (one per scalar, one per element of a sequence, none
\* for an absent or empty imdb_id).
C1_CountsAddUp ==
    Scanning => duplicates + Cardinality(DOMAIN imdb_map) = Processed

C1_Witness ==
    /\ Analyzing /\ pc = "done"
    /\ duplicates >= 1
    /\ Cardinality(DOMAIN imdb_map) >= 2
    /\ \E a, b \in 1..Len(data) :
        /\ data[a].value.imdb_id.t = "str"
        /\ data[b].value.imdb_id.t = "list"

\* the target is the record's mal_id or one of its elements
HoldsTarget(rec) ==
    LET m == rec.mal_id
    IN IF m.t = "list"
         THEN \E k \in 1..Len(m.v) : m.v[k].t = "int" /\ m.v[k].v = target_mal_id
         ELSE m.t = "int" /\ m.v = target_mal_id

Holders == {k \in 1..Len(data) : HoldsTarget(data[k].value)}

FirstHolder == CHOOSE k \in Holders : \A h \in Holders : k <= h

\* C2: when the target MAL ID is held by the mal_id of some records, the
\* lookup ends with the key and value of the first of them in iteration
\* order, and stops right behind it: no later record is examined.
C2_FirstMatchWins ==
    /\ (Analyzing /\ pc = "lookup") =>
           /\ found_key = None /\ found_entry = None
           /\ \A h \in Holders : h >= pos
    /\ (LookedUp /\ Holders # {}) =>
           /\ found_key = data[FirstHolder].key
           /\ found_entry = data[FirstHolder].value
           /\ pc = "print_entry" => pos = FirstHolder + 1

C2_Witness ==
    /\ Analyzing /\ pc = "print_entry"
    /\ Cardinality(Holders) >= 2
    /\ \E a, b \in Holders : data[a].value # data[b].value

\* every scalar mal_id wrapped in a one-element sequence
Wrapped(m) == IF m.t = "list" THEN m.v ELSE <<m>>

InWrapped(rec) ==
    \E k \in 1..Len(Wrapped(rec.mal_id)) :
        Wrapped(rec.mal_id)[k] = Num(target_mal_id)

RECURSIVE NormalizedLookup(_, _)
NormalizedLookup(d, k) ==
    IF k > Len(d)
      THEN [key |-> None, value |-> None]
      ELSE IF InWrapped(d[k].value) THEN d[k] ELSE NormalizedLookup(d, k + 1)

\* C3: the lookup (membership for a list, equality for a scalar) finds the
\* same record as a lookup that wraps every scalar mal_id in a one-element
\* sequence and tests membership, on every dataset.
C3_NormalizedLookupAgrees ==
    LookedUp =>
        /\ found_key = NormalizedLookup(data, 1).key
        /\ found_entry = NormalizedLookup(data, 1).value

C3_Witness ==
    /\ LookedUp
    /\ found_key # None
    /\ found_entry.mal_id.t = "int"
    /\ \E k \in 1..Len(data) : data[k].value.mal_id.t = "list"

RECURSIVE AllValues(_, _)
AllValues(d, n) == IF n = 0 THEN <<>> ELSE AllValues(d, n - 1) \o ValuesOf(d[n].value)

\* no IMDb value occurs twice, across records or within one sequence
NoDuplicateValues(d) ==
    LET all == AllValues(d, Len(d))
    IN \A a, b \in 1..Len(all) : all[a] = all[b] => a = b

\* C4: on a dataset without duplicate IMDb values the scan ends with
\* duplicates = 0 and as many keys in imdb_map as there are values, and
\* reports these two numbers.
C4_NoDuplicatesReported ==
    (Analyzing /\ pc = "done" /\ NoDuplicateValues(data)) =>
        /\ duplicates = 0
        /\ Cardinality(DOMAIN imdb_map) = ValueCount(data, Len(data))
        /\ out[Len(out)] = [line |-> "Duplicate IMDb references", n |-> 0]
        /\ out[Len(out) - 1] =
               [line |-> "Unique IMDb IDs mapped", n |-> ValueCount(data, Len(data))]

C4_Witness ==
    /\ Analyzing /\ pc = "done"
    /\ NoDuplicateValues(data)
    /\ ValueCount(data, Len(data)) >= 2
    /\ \E k \in 1..Len(data) : data[k].value.imdb_id.t = "str" /\ data[k].value.imdb_id.v # ""

\* the records whose imdb_id holds v
Sources(v) ==
    {k \in 1..Len(data) :
        \E e \in 1..Len(ValuesOf(data[k].value)) : ValuesOf(data[k].value)[e] = v}

FirstSource(v) == CHOOSE k \in Sources(v) : \A h \in Sources(v) : k <= h

FirstSeen ==
    Scanning =>
        \A v \in DOMAIN imdb_map :
            Sources(v) # {} /\ imdb_map[v] = data[FirstSource(v)].key

NeverOverwritten ==
    \A v \in DOMAIN imdb_map : v \in DOMAIN imdb_map' /\ imdb_map'[v] = imdb_map[v]

RepeatCounted ==
    (pc = "scan_values" /\ sub <= Len(imdb_ids.v) /\ imdb_ids.v[sub] \in DOMAIN imdb_map) =>
        duplicates' = duplicates + 1 /\ imdb_map' = imdb_map

\* C5: imdb_map is a first-seen mapping: every value in it maps to the key
\* of the first record in iteration order whose imdb_id holds it, no entry
\* is ever overwritten, and each occurrence of a value already mapped adds
\* exactly 1 to duplicates and leaves imdb_map as it is.
C5_FirstSeenMapping == []FirstSeen /\ [][NeverOverwritten /\ RepeatCounted]_vars

C5_Witness ==
    /\ Analyzing /\ pc = "done"
    /\ duplicates >= 1
    /\ \E v \in DOMAIN imdb_map : Cardinality(Sources(v)) >= 2

NoHolder == Analyzing /\ json.state = "ok" /\ \A k \in 1..Len(json.content) :
                ~HoldsTarget(json.content[k].value)

\* C6: when no record's mal_id equals or contains the target, the lookup
\* raises no error: it visits every record, leaves found_key and
\* found_entry None, prints that absent result, and the run goes on through
\* the duplicate scan to its three report lines.
C6_NotFoundIsNoError ==
    NoHolder =>
        /\ pc # "error"
        /\ found_key = None /\ found_entry = None
        /\ pc = "print_entry" => pos = Len(data) + 1
        /\ pc \in {"scan", "scan_values", "done"} =>
               out[2] = [line |-> "entry", key |-> "null", entry |-> None]
        /\ pc = "done" =>
               /\ Len(out) = 6
               /\ out[4].line = "Total entries"
               /\ out[5].line = "Unique IMDb IDs mapped"
               /\ out[6].line = "Duplicate IMDb references"
        /\ pc # "done" => ENABLED Next

C6_Witness ==
    /\ NoHolder /\ pc = "done"
    /\ Len(data) >= 2
    /\ \E k \in 1..Len(data) : Truthy(data[k].value.mal_id)

\* the input the script needs is there: the file exists, holds JSON, and
\* (for the SQLite scripts) the database has a table named anime
InputPresent ==
    IF Analyzing
      THEN json.state = "ok"
      ELSE db.file = "present" /\ HasTable(db, "anime")

\* C7 as stated: in each of the five scripts a missing file, malformed JSON
\* or absent table anime ends the run in an error and never in normal
\* completion, inspect_db.py against a missing database file included.
C7_AnyBadInputFails ==
    /\ pc = "done" => InputPresent
    /\ ~ENABLED Next => pc \in {"done", "error"}

\* C7 as the code has it: a missing or malformed mappings.json fails
\* analyze_mappings.py; a missing database file or an absent table anime
\* fails inspect_aot.py, inspect_episodes.py and inspect_duplicates.py;
\* inspect_db.py fails only when the database file can be neither opened
\* nor created, and otherwise completes, on a database file that was
\* missing (sqlite3.connect creates it empty) and without any table anime.
C7_BadInputFails ==
    /\ pc = "done" =>
           IF script = "inspect_db"
             THEN db.file \in {"present", "created"}
             ELSE InputPresent
    /\ ~ENABLED Next => pc \in {"done", "error"}
    /\ (script = "inspect_db" /\ db.file = "created") => pc # "error"

C7_Witness ==
    /\ script = "inspect_duplicates"
    /\ db.file = "created"
    /\ pc = "error"

ReadOnlyStep ==
    /\ json' = json
    /\ db'.tables = db.tables
    /\ pc # "start" => data' = data

\* C8: the scripts only read: the loaded dataset stays what was loaded
\* throughout a run of analyze_mappings.py, scalar imdb_id values that the
\* scan wraps in a list included; mappings.json is not written; and no
\* SQLite script creates, changes or deletes a row of any table.
C8_ReadOnly ==
    /\ [](LookedUp => data = json.content)
    /\ [][ReadOnlyStep]_vars

C8_Witness ==
    /\ Analyzing /\ pc = "scan_values"
    /\ imdb_ids.t = "list"
    /\ data[pos].value.imdb_id.t = "str"
    /\ sub > Len(imdb_ids.v)

\* the first n items of s
FirstN(s, n) == [k \in 1..(IF Len(s) < n THEN Len(s) ELSE n) |-> s[k]]

\* what inspect_db.py is to print for table t
TableOutput(t) ==
    <<[line |-> "Schema for", table |-> t.name]>>
        \o [k \in 1..Len(t.cols) |-> [line |-> "col", table |-> t.name, item |-> t.cols[k]]]
        \o <<[line |-> "First 5 rows of", table |-> t.name]>>
        \o [k \in 1..Len(FirstN(t.rows, 5)) |->
               [line |-> "row", table |-> t.name, item |-> t.rows[k]]]

RECURSIVE TablesOutput(_, _)
TablesOutput(ts, n) ==
    IF n = 0 THEN <<>> ELSE TablesOutput(ts, n - 1) \o TableOutput(ts[n])

\* the heading and column lines of table t
SchemaOutput(t) == SubSeq(TableOutput(t), 1, 1 + Len(t.cols))

TableList == [line |-> "Tables", tables |-> [k \in 1..Len(db.tables) |-> <<db.tables[k].name>>]]

GroupLines == {n \in 1..Len(out) : out[n].line = "group"}

RECURSIVE Beneath(_)
Beneath(n) ==
    IF n + 1 <= Len(out) /\ out[n + 1].line = "detail"
      THEN <<out[n + 1].item>> \o Beneath(n + 1)
      ELSE <<>>

\* the rows of anime whose imdb_id is the cell c
RowsWith(c) == SelectSeq(AnimeRows(db), LAMBDA r : r.imdb_id = c)

\* C10: inspect_duplicates.py reports at most 5 IMDb IDs, each non-null and
\* shared by at least 2 rows of anime, and beneath every reported pair
\* (imdb_id, c) prints exactly the rows of anime with that imdb_id, c of
\* them.
C10_GroupsAndDetails ==
    script = "inspect_duplicates" =>
        /\ Cardinality(GroupLines) <= 5
        /\ \A n \in GroupLines :
            LET cell == out[n].row[1]
                c == out[n].row[2].v
            IN /\ cell.t = "str"
               /\ c >= 2
               /\ Beneath(n) = RowsWith(cell)
               /\ Len(Beneath(n)) = c

====
